---- MODULE Spec2Model ----
(***************************************************************************)
(* Model of the commerce-agent demo server (src/server.js): the product    *)
(* matcher (loadProducts filtering, selectProduct, tokenize, scoreProduct, *)
(* normalizeDescription), the catalog cache with its refresh triggers, the *)
(* Shopify webhook receiver, the checkout stub and the /agent and /config  *)
(* endpoints.                                                              *)
(*                                                                         *)
(* JavaScript strings are sequences of one-character strings, so that      *)
(* lower-casing, splitting, substring search and the regular-expression    *)
(* replacements are computed character by character as the code does.      *)
(* A JavaScript value that may be a string, undefined or null is a record  *)
(* with a kind field k.                                                    *)
(***************************************************************************)
EXTENDS Integers, Sequences, FiniteSets, TLC

----------------------------------------------------------------------------
(* JavaScript values *)

Undefined == [k |-> "undefined"]
Null == [k |-> "null"]
Str(s) == [k |-> "string", v |-> s]
Num(n) == [k |-> "number", v |-> n]
Arr(a) == [k |-> "array", v |-> a]
Bool(b) == [k |-> "boolean", v |-> b]

\* Boolean(x) for the value kinds used here: undefined, null, '' and 0 are falsy
Truthy(x) ==
    CASE x.k = "undefined" -> FALSE
      [] x.k = "null" -> FALSE
      [] x.k = "string" -> x.v # <<>>
      [] x.k = "number" -> x.v # 0
      [] OTHER -> TRUE

----------------------------------------------------------------------------
(* String primitives used by the matcher *)

Upper ==
    <<"A", "B", "C", "D", "E", "F", "G", "H", "I", "J", "K", "L", "M",
      "N", "O", "P", "Q", "R", "S", "T", "U", "V", "W", "X", "Y", "Z">>
Lower ==
    <<"a", "b", "c", "d", "e", "f", "g", "h", "i", "j", "k", "l", "m",
      "n", "o", "p", "q", "r", "s", "t", "u", "v", "w", "x", "y", "z">>
Digits == {"0", "1", "2", "3", "4", "5", "6", "7", "8", "9"}

\* String.prototype.toLowerCase, one character
LowerChar(c) ==
    IF \E i \in 1..26 : Upper[i] = c
    THEN Lower[CHOOSE i \in 1..26 : Upper[i] = c]
    ELSE c

toLowerCase(s) == [i \in 1..Len(s) |-> LowerChar(s[i])]

\* the character class \s of a JavaScript regular expression
IsSpace(c) == c \in {" ", "\t", "\n"}

\* the character class [\s,] of tokenize's separator
IsSeparator(c) == IsSpace(c) \/ c = ","

\* text.split(/[\s,]+/): the pieces between maximal separator runs; a leading
\* or trailing run leaves an empty piece, and '' splits to ['']
RECURSIVE SplitFrom(_, _, _, _)
SplitFrom(text, i, cur, out) ==
    IF i > Len(text) THEN Append(out, cur)
    ELSE IF IsSeparator(text[i])
         THEN IF i > 1 /\ IsSeparator(text[i - 1])
              THEN SplitFrom(text, i + 1, cur, out)
              ELSE SplitFrom(text, i + 1, <<>>, Append(out, cur))
         ELSE SplitFrom(text, i + 1, Append(cur, text[i]), out)

split(text) == SplitFrom(text, 1, <<>>, <<>>)

\* Array.prototype.filter(Boolean) on an array of strings
FilterNonEmpty(pieces) == SelectSeq(pieces, LAMBDA p : p # <<>>)

\* String.prototype.includes
includes(hay, needle) ==
    \E i \in 0..(Len(hay) - Len(needle)) :
        SubSeq(hay, i + 1, i + Len(needle)) = needle

\* Array.prototype.join(' ')
RECURSIVE join(_)
join(parts) ==
    IF parts = <<>> THEN <<>>
    ELSE IF Len(parts) = 1 THEN parts[1]
    ELSE parts[1] \o <<" ">> \o join(Tail(parts))

----------------------------------------------------------------------------
(* Matcher *)

tokenize(text) == FilterNonEmpty(split(toLowerCase(text)))

\* [title, product_type, tags].filter(Boolean).join(' ').toLowerCase()
buildSearchableString(product) ==
    LET fields == <<product.title, product.product_type, product.tags>>
        sections == SelectSeq(fields, Truthy)
    IN  toLowerCase(join([i \in 1..Len(sections) |-> sections[i].v]))

\* keywords.reduce((score, term) => includes ? score + 1 : score, 0)
RECURSIVE scoreProduct(_, _)
scoreProduct(keywords, searchTarget) ==
    IF keywords = <<>> THEN 0
    ELSE scoreProduct(SubSeq(keywords, 1, Len(keywords) - 1), searchTarget)
         + (IF includes(searchTarget, keywords[Len(keywords)]) THEN 1 ELSE 0)

----------------------------------------------------------------------------
(* Description normalisation *)

\* a thrown exception (TypeError, Error) as a value
Throw == [k |-> "throw"]

\* index of the first '>' at or after position i, 0 when there is none
RECURSIVE FirstGt(_, _)
FirstGt(s, i) ==
    IF i > Len(s) THEN 0
    ELSE IF s[i] = ">" THEN i
    ELSE FirstGt(s, i + 1)

\* html.replace(/<[^>]+>/g, ' '): scanning left to right, a '<' followed by at
\* least one character other than '>' and then a '>' is replaced by one space
RECURSIVE ReplaceTagsFrom(_, _)
ReplaceTagsFrom(s, i) ==
    IF i > Len(s) THEN <<>>
    ELSE LET j == FirstGt(s, i + 1)
         IN  IF s[i] = "<" /\ j >= i + 2
             THEN <<" ">> \o ReplaceTagsFrom(s, j + 1)
             ELSE <<s[i]>> \o ReplaceTagsFrom(s, i + 1)

\* the character class [a-z#0-9] under the i flag
IsEntityChar(c) ==
    \/ \E i \in 1..26 : c = Lower[i] \/ c = Upper[i]
    \/ c = "#"
    \/ c \in Digits

\* length of the maximal run of entity characters starting at position i
RECURSIVE EntityRun(_, _)
EntityRun(s, i) ==
    IF i > Len(s) \/ ~IsEntityChar(s[i]) THEN 0
    ELSE 1 + EntityRun(s, i + 1)

\* entityMap[entity] ?? entity: the lookup is by the text as written
entityMap(entity) ==
    CASE entity = <<"&", "a", "m", "p", ";">> -> <<"&">>
      [] entity = <<"&", "l", "t", ";">> -> <<"<">>
      [] entity = <<"&", "g", "t", ";">> -> <<">">>
      [] entity = <<"&", "q", "u", "o", "t", ";">> -> <<"\"">>
      [] entity = <<"&", "#", "3", "9", ";">> -> <<"'">>
      [] entity = <<"&", "n", "b", "s", "p", ";">> -> <<" ">>
      [] OTHER -> entity

\* text.replace(/&[a-z#0-9]+;/gi, ...): one left-to-right pass; the replacement
\* text is not scanned again
RECURSIVE DecodeFrom(_, _)
DecodeFrom(s, i) ==
    IF i > Len(s) THEN <<>>
    ELSE LET n == EntityRun(s, i + 1)
         IN  IF s[i] = "&" /\ n >= 1 /\ i + n + 1 <= Len(s) /\ s[i + n + 1] = ";"
             THEN entityMap(SubSeq(s, i, i + n + 1)) \o DecodeFrom(s, i + n + 2)
             ELSE <<s[i]>> \o DecodeFrom(s, i + 1)

\* a decoder that scans its own output again: "&amp;lt;" would become "<"
decodeEntitiesTwice(text) == DecodeFrom(DecodeFrom(text, 1), 1)

decodeEntities(text) == DecodeFrom(text, 1)

\* decoded.replace(/\s+/g, ' '): every maximal whitespace run becomes one space
RECURSIVE CollapseFrom(_, _)
CollapseFrom(s, i) ==
    IF i > Len(s) THEN <<>>
    ELSE IF IsSpace(s[i])
         THEN IF i > 1 /\ IsSpace(s[i - 1])
              THEN CollapseFrom(s, i + 1)
              ELSE <<" ">> \o CollapseFrom(s, i + 1)
         ELSE <<s[i]>> \o CollapseFrom(s, i + 1)

\* String.prototype.trim
RECURSIVE trim(_)
trim(s) ==
    IF s = <<>> THEN s
    ELSE IF IsSpace(s[1]) THEN trim(Tail(s))
    ELSE IF IsSpace(s[Len(s)]) THEN trim(SubSeq(s, 1, Len(s) - 1))
    ELSE s

\* normalizeDescription(html = ''): the default applies to undefined only, so
\* a null body_html reaches html.replace and throws a TypeError
normalizeDescription(html) ==
    IF html.k = "null" THEN Throw
    ELSE LET text == IF html.k = "undefined" THEN <<>> ELSE html.v
             withoutTags == ReplaceTagsFrom(text, 1)
             decoded == decodeEntities(withoutTags)
         IN  Str(trim(CollapseFrom(decoded, 1)))

----------------------------------------------------------------------------
(* Prices *)

\* product.variants[0]?.price as a number, null when absent.  A price is held
\* as a whole number of cents.
getProductPrice(product) ==
    LET rawPrice == IF product.variants.k = "array" /\ product.variants.v # <<>>
                    THEN product.variants.v[1].price ELSE Undefined
    IN  IF rawPrice.k \in {"undefined", "null"} THEN Null ELSE rawPrice

\* `$${amount.toFixed(2)}`, null for a null amount
formatPrice(amount) ==
    IF amount.k = "null" THEN Null
    ELSE Str(<<"$", amount.v \div 100, ".", (amount.v % 100) \div 10, amount.v % 10>>)

----------------------------------------------------------------------------
(* Product selection *)

\* x ?? '' for a string-valued field
OrEmpty(x) == IF x.k \in {"undefined", "null"} THEN Str(<<>>) ELSE x

\* the loop of selectProduct from the i-th product on; a product replaces the
\* best one only on a strictly greater score, and the summary of the new best
\* product is built at that moment (so normalizeDescription may throw there)
RECURSIVE SelectFrom(_, _, _, _, _)
SelectFrom(products, keywords, i, bestProduct, bestScore) ==
    IF i > Len(products) THEN bestProduct
    ELSE LET product == products[i]
             searchTarget == buildSearchableString(product)
             score == scoreProduct(keywords, searchTarget)
             description == normalizeDescription(product.body_html)
         IN  IF score > bestScore
             THEN IF description.k = "throw" THEN Throw
                  ELSE SelectFrom(products, keywords, i + 1,
                                  [k |-> "object",
                                   id |-> product.id,
                                   title |-> product.title,
                                   description |-> description,
                                   tags |-> OrEmpty(product.tags),
                                   product_type |-> OrEmpty(product.product_type),
                                   price_display |-> formatPrice(getProductPrice(product))],
                                  score)
             ELSE SelectFrom(products, keywords, i + 1, bestProduct, bestScore)

selectProduct(products, query) == SelectFrom(products, tokenize(query), 1, Null, -1)

\* Number(variant?.inventory_quantity ?? 0)
InventoryOf(variant) ==
    IF variant.inventory_quantity.k = "number" THEN variant.inventory_quantity.v ELSE 0

\* the reduce over product.variants, 0 when variants is not an array
RECURSIVE SumInventory(_)
SumInventory(variants) ==
    IF variants = <<>> THEN 0
    ELSE InventoryOf(variants[1]) + SumInventory(Tail(variants))

inventory(product) ==
    IF product.variants.k = "array" THEN SumInventory(product.variants.v) ELSE 0

\* a filter that drops the drafts only, whatever the stock is
FilterProductsAnyStock(base, external) ==
    SelectSeq(base \o external, LAMBDA p : p.status # Str("draft"))

\* the tail of loadProducts: base products then external products, drafts
\* dropped, then products without positive summed inventory dropped
FilterProducts(base, external) ==
    LET products == base \o external
        notDraft == SelectSeq(products, LAMBDA p : p.status # Str("draft"))
    IN  SelectSeq(notDraft, LAMBDA p : inventory(p) > 0)

----------------------------------------------------------------------------
(* Checkout stub *)

\* a checkout that calls the provider whether or not a key is configured
createPaymentIntentAlwaysLive(stripeConfigured, amountCents, productId) ==
    [k |-> "pending", amount |-> amountCents, metadata |-> [productId |-> productId.v]]

\* createPaymentIntent(amountCents, productId) up to its first await: without
\* a Stripe client the mock intent is returned, otherwise the provider is called
createPaymentIntent(stripeConfigured, amountCents, productId) ==
    IF ~stripeConfigured
    THEN [k |-> "resolved",
          id |-> <<"pi_mock_", productId.v>>,
          client_secret |-> "pi_mock_client_secret"]
    ELSE [k |-> "pending",
          amount |-> amountCents,
          metadata |-> [productId |-> productId.v]]

----------------------------------------------------------------------------
(* Webhook signature *)

\* length in bytes of a digest (32 for SHA-256, scaled down)
DigestLen == 2

\* sum of the bytes of a buffer
RECURSIVE SumBytes(_)
SumBytes(b) == IF b = <<>> THEN 0 ELSE b[1] + SumBytes(Tail(b))

\* crypto.createHmac('sha256', secret).update(body).digest(): a keyed digest of
\* DigestLen bytes, standing in for HMAC-SHA256
Hmac(secret, body) ==
    [i \in 1..DigestLen |-> (SumBytes(secret) + SumBytes(body) * i + i) % 2]

\* crypto.timingSafeEqual(a, b) on buffers of equal length: the differences of
\* all byte pairs are accumulated and compared with zero at the end
RECURSIVE DiffCount(_, _)
DiffCount(a, b) ==
    IF a = <<>> THEN 0
    ELSE (IF a[1] = b[1] THEN 0 ELSE 1) + DiffCount(Tail(a), Tail(b))

timingSafeEqual(a, b) == DiffCount(a, b) = 0

\* a comparison of the lengths alone
SignatureAcceptedByLength(headerBuffer, digestBuffer) ==
    Len(headerBuffer) = Len(digestBuffer)

\* the condition under which the webhook handler proceeds past line 59
SignatureAccepted(headerBuffer, digestBuffer) ==
    ~(Len(headerBuffer) # Len(digestBuffer) \/ ~timingSafeEqual(digestBuffer, headerBuffer))

----------------------------------------------------------------------------
(* External (scraped) products *)

DigitValue(c) ==
    CASE c = "0" -> 0 [] c = "1" -> 1 [] c = "2" -> 2 [] c = "3" -> 3
      [] c = "4" -> 4 [] c = "5" -> 5 [] c = "6" -> 6 [] c = "7" -> 7
      [] c = "8" -> 8 [] c = "9" -> 9 [] OTHER -> -1

\* Number(text) for the texts that occur as the last segment of an id: the
\* empty string is 0, a run of digits is its value, anything else is NaN (-1)
RECURSIVE NumberOf(_)
NumberOf(text) ==
    IF text = <<>> THEN 0
    ELSE LET front == NumberOf(SubSeq(text, 1, Len(text) - 1))
             d == DigitValue(text[Len(text)])
         IN  IF front < 0 \/ d < 0 THEN -1 ELSE front * 10 + d

\* the text after the last '/' of gid
RECURSIVE LastSegment(_)
LastSegment(gid) ==
    IF gid = <<>> THEN <<>>
    ELSE IF gid[Len(gid)] = "/" THEN <<>>
    ELSE Append(LastSegment(SubSeq(gid, 1, Len(gid) - 1)), gid[Len(gid)])

\* extractNumericId(gid = ''): null unless gid is a string whose last segment
\* is numeric
extractNumericId(gid) ==
    LET text == IF gid.k = "undefined" THEN Str(<<>>) ELSE gid
    IN  IF text.k # "string" THEN Null
        ELSE IF NumberOf(LastSegment(text.v)) < 0 THEN Null
        ELSE Num(NumberOf(LastSegment(text.v)))

\* a ?? b
Coalesce(a, b) == IF a.k \in {"undefined", "null"} THEN b ELSE a

\* the variants built by transformMcpProduct
McpVariants(product) ==
    IF product.variants.k = "array"
    THEN Arr([i \in 1..Len(product.variants.v) |->
                [inventory_quantity |->
                     Num(IF product.variants.v[i].available = Bool(FALSE) THEN 0 ELSE 999),
                 available |-> product.variants.v[i].available # Bool(FALSE),
                 price |-> Coalesce(product.variants.v[i].price, Num(0))]])
    ELSE Arr(<<[inventory_quantity |->
                    Num(IF product.available = Bool(FALSE) THEN 0 ELSE 999),
                available |-> product.available # Bool(FALSE),
                price |-> Num(0)]>>)

\* transformMcpProduct(product, index); index is the 0-based array index
transformMcpProduct(product, index) ==
    LET variants == McpVariants(product)
    IN  [id |-> Coalesce(extractNumericId(product.product_id), Str(<<"mcp_", index>>)),
         title |-> Coalesce(product.title, Str(<<"U", "n", "t", "i", "t", "l", "e", "d">>)),
         body_html |-> IF Truthy(product.description)
                       THEN Str(<<"<", "p", ">">> \o product.description.v \o <<"<", "/", "p", ">">>)
                       ELSE Str(<<>>),
         product_type |-> Coalesce(product.product_type, Str(<<>>)),
         status |-> IF \E i \in 1..Len(variants.v) : variants.v[i].available
                    THEN Str("active") ELSE Str("draft"),
         tags |-> Coalesce(product.tags, Str(<<>>)),
         variants |-> Arr([i \in 1..Len(variants.v) |->
                             [inventory_quantity |-> variants.v[i].inventory_quantity,
                              price |-> variants.v[i].price]])]

\* rawProducts.map(transformMcpProduct)
TransformAll(rawProducts) ==
    [i \in 1..Len(rawProducts) |-> transformMcpProduct(rawProducts[i], i - 1)]

----------------------------------------------------------------------------
(* Bounds and the data the environment can supply *)

\* number of /agent requests, of webhook deliveries and of timer-started
\* refreshes that can be in progress at the same time, and the number of
\* asynchronous operations of all kinds that can be
MaxAgents == 1
MaxHooks == 1
MaxCron == 1
MaxInFlight == 2

\* pieces in a description and products in a base catalog, for the
\* specifications of normalizeDescription and of the matcher on their own
MaxPieces == 3
MaxCatalog == 2

Variant(qty, price) == [inventory_quantity |-> qty, price |-> price]

RedMug ==
    [id |-> Num(1), title |-> Str(<<"R", "e", "d", " ", "M", "u", "g">>),
     body_html |-> Str(<<"<", "p", ">", "A", " ", "&", "a", "m", "p", ";", " ", "B", "<", "/", "p", ">">>),
     product_type |-> Undefined, tags |-> Str(<<"k", "i", "t", "c", "h", "e", "n">>),
     status |-> Str("active"), variants |-> Arr(<<Variant(Num(1), Num(1250))>>)]

\* in the catalog and active, but every variant is sold out
BluePlate ==
    [id |-> Num(2), title |-> Str(<<"B", "l", "u", "e", " ", "P", "l", "a", "t", "e">>),
     body_html |-> Undefined, product_type |-> Str(<<"P", "l", "a", "t", "e">>),
     tags |-> Undefined, status |-> Str("active"),
     variants |-> Arr(<<Variant(Num(0), Num(900)), Variant(Undefined, Undefined)>>)]

\* a draft with stock
RedPlate ==
    [id |-> Num(3), title |-> Str(<<"R", "e", "d", " ", "P", "l", "a", "t", "e">>),
     body_html |-> Str(<<>>), product_type |-> Undefined,
     tags |-> Str(<<"r", "e", "d", ",", " ", "m", "u", "g">>),
     status |-> Str("draft"), variants |-> Arr(<<Variant(Num(3), Undefined)>>)]

\* a product without a description: Shopify sends body_html: null
Mugs ==
    [id |-> Num(4), title |-> Str(<<"M", "u", "g", "s">>),
     body_html |-> Null, product_type |-> Str(<<"R", "e", "d">>),
     tags |-> Undefined, status |-> Undefined,
     variants |-> Arr(<<Variant(Num(2), Num(500)), Variant(Num(1), Num(700))>>)]

\* no variants array at all
BlueMug ==
    [id |-> Num(5), title |-> Str(<<"B", "l", "u", "e", " ", "M", "u", "g">>),
     body_html |-> Undefined, product_type |-> Undefined, tags |-> Undefined,
     status |-> Str("active"), variants |-> Undefined]

\* returns cancel the stock: the quantities sum to zero
RedBowl ==
    [id |-> Num(6), title |-> Str(<<"R", "e", "d", " ", "B", "o", "w", "l">>),
     body_html |-> Undefined, product_type |-> Undefined, tags |-> Str(<<"r", "e", "d">>),
     status |-> Str("active"), variants |-> Arr(<<Variant(Num(2), Num(100)), Variant(Num(-2), Num(100))>>)]

BlueBowl ==
    [id |-> Num(7), title |-> Str(<<"B", "l", "u", "e", " ", "B", "o", "w", "l">>),
     body_html |-> Str(<<"A", "&", "n", "b", "s", "p", ";", "B">>), product_type |-> Undefined,
     tags |-> Str(<<"k", "i", "t", "c", "h", "e", "n", ",", "m", "u", "g">>),
     status |-> Str("active"), variants |-> Arr(<<Variant(Num(4), Num(1999))>>)]

\* what the scraper writes for one product
RawMug ==
    [product_id |-> Str(<<"g", "i", "d", "/", "8">>),
     title |-> Str(<<"M", "u", "g">>), description |-> Str(<<"A">>),
     product_type |-> Undefined, tags |-> Undefined, available |-> Undefined,
     variants |-> Arr(<<[available |-> Bool(TRUE), price |-> Num(300)]>>)]

RawSoldOut ==
    [product_id |-> Str(<<"g", "i", "d", "/", "9">>),
     title |-> Str(<<"B", "l", "u", "e", " ", "M", "u", "g">>), description |-> Undefined,
     product_type |-> Undefined, tags |-> Undefined, available |-> Bool(FALSE),
     variants |-> Undefined]

\* data.products of the successful Shopify responses: one that starts with a
\* product without variants and a sold-out one, one that starts with a
\* product without a description
FetchResults == {<<BlueMug, BluePlate, RedMug>>, <<Mugs, RedMug>>}

\* products.json as a previous run may have left it: nothing in it is for sale
StaleProducts == <<BluePlate, RedPlate>>

\* what a successful scraper run leaves in the raw file
RawResults == {<<RawMug, RawSoldOut>>}

\* contents of a file: a JSON array, or nothing readJsonFile can return
\* (the file is absent, truncated or otherwise not parseable)
Unreadable == [k |-> "unreadable"]

\* req.body.query of an /agent request
Queries ==
    {Undefined, Num(7), Str(<<>>), Str(<<"B", "l", "u", "e">>),
     Str(<<"r", "e", "d", " ", "m", "u", "g">>)}

\* the configured webhook secret and the raw bodies of the deliveries
WebhookSecret == <<1, 0>>
Bodies == {<<0>>, <<1>>}

\* the header of a delivery, decoded: absent, the digest of the body <<0>>
\* (genuine for that body, replayed for another), that digest with one byte
\* changed, cut short or extended
Headers ==
    LET digests == {Hmac(WebhookSecret, <<0>>)}
    IN  {<<>>} \cup digests
        \cup {[d EXCEPT ![i] = 1 - @] : d \in digests, i \in 1..DigestLen}
        \cup {SubSeq(d, 1, DigestLen - 1) : d \in digests}
        \cup {Append(d, 0) : d \in digests}

----------------------------------------------------------------------------
(* State *)

VARIABLES
    env,                    \* process.env as read at module load
    baseProductsCache,      \* let baseProductsCache
    externalProductsCache,  \* let externalProductsCache
    baseFile,               \* products.json
    externalFile,           \* external_products.json
    externalRawFile,        \* mcp_catalog_raw.json
    baseRefresh,            \* the calls of refreshBaseProducts in progress, by caller
    externalRefresh,        \* the calls of refreshExternalProducts in progress, by caller
    agent,                  \* the /agent requests in progress
    hook,                   \* the webhook deliveries in progress
    response,               \* the HTTP response sent in the current turn of the event loop
    matchInput,             \* matcher on its own: query and catalog
    matchState,             \* matcher on its own: progress and result
    normInput,              \* normalizeDescription on its own: the pieces of the input
    normState,              \* normalizeDescription on its own: progress and result
    mcpStores,              \* multi-store server: const mcpStores, from MCP_STORES
    storeRawFile,           \* multi-store server: mcp_catalog_raw_<store>.json, by store
    storesRefresh           \* multi-store server: the calls of refreshExternalProducts, by caller

serverVars ==
    <<env, baseProductsCache, externalProductsCache, baseFile, externalFile,
      externalRawFile, baseRefresh, externalRefresh, agent, hook, response>>
matchVars == <<matchInput, matchState>>
normVars == <<normInput, normState>>
storeVars == <<mcpStores, storeRawFile, storesRefresh>>
vars == <<serverVars, matchVars, normVars, storeVars>>

StartupId == <<"startup", 1>>
CronIds == {<<"cron", n>> : n \in 1..MaxCron}
AgentIds == {<<"agent", n>> : n \in 1..MaxAgents}
HookIds == {<<"hook", n>> : n \in 1..MaxHooks}
RefreshCallers == {StartupId} \cup CronIds \cup AgentIds \cup HookIds

stripeConfigured == env.stripeSecretKey # ""
stripePublishableKey == env.stripePublishableKey
shopifyCredentials == env.shopifyStoreDomain # "" /\ env.shopifyAccessToken # ""
shopifyWebhookSecret == env.shopifyWebhookSecret
useMcpScraper == env.mcpStoreDomain # ""

Env(stripeKey, domain, token, secret, store) ==
    [stripeSecretKey |-> stripeKey,
     stripePublishableKey |-> "pk_test",
     shopifyStoreDomain |-> domain,
     shopifyAccessToken |-> token,
     shopifyWebhookSecret |-> secret,
     mcpStoreDomain |-> store]

\* the environments the server is started in: everything but the scraper
\* configured, no Stripe key, nothing configured, no access token, no store
\* domain, and two with the scraper in use
Environments ==
    {Env("sk_test", "shop.myshopify.com", "shpat", WebhookSecret, ""),
     Env("", "shop.myshopify.com", "shpat", WebhookSecret, ""),
     Env("", "", "", <<>>, ""),
     Env("sk_test", "shop.myshopify.com", "", WebhookSecret, ""),
     Env("", "", "shpat", <<>>, ""),
     Env("", "shop.myshopify.com", "shpat", <<>>, "store.example.com"),
     Env("sk_test", "", "", WebhookSecret, "store.example.com")}

\* a refresh, request or delivery that is not in progress
Idle == [pc |-> "idle", data |-> <<>>, step |-> ""]
NoAgent == [pc |-> "idle", query |-> Undefined, product |-> Null]
NoHook == [pc |-> "idle", header |-> <<>>, body |-> <<>>]

Settled(pc) == pc \in {"done", "failed"}
Running(pc) == pc \notin {"idle", "done", "failed"}

\* a scraper could not be started: the child's 'error' event has no
\* listener, the exception is uncaught and the process has ended
ProcessExited == \E o \in RefreshCallers : externalRefresh[o].pc = "crashed"

\* the process is running and the current turn of the event loop has sent
\* nothing and settled nothing yet: a callback runs only when the previous
\* turn is over
Quiet ==
    /\ ~ProcessExited
    /\ response = Null
    /\ \A o \in RefreshCallers : ~Settled(baseRefresh[o].pc) /\ ~Settled(externalRefresh[o].pc)
    /\ \A a \in AgentIds : ~Settled(agent[a].pc)
    /\ \A w \in HookIds : ~Settled(hook[w].pc)

\* asynchronous operations in progress: requests, deliveries, and the
\* refreshes that no request or delivery is awaiting
InFlight ==
    Cardinality({a \in AgentIds : Running(agent[a].pc)})
    + Cardinality({w \in HookIds : Running(hook[w].pc)})
    + Cardinality({o \in CronIds \cup {StartupId} : Running(baseRefresh[o].pc)})
    + Cardinality({o \in CronIds \cup {StartupId} : Running(externalRefresh[o].pc)})

\* the lowest-numbered free slot of a kind: requests and ticks are numbered
\* in the order they arrive
FirstFree(ids, busy) ==
    {o \in ids : ~busy[o] /\ \A other \in ids : other[2] < o[2] => busy[other]}

----------------------------------------------------------------------------
(* Catalog refresh *)

\* refreshBaseProducts up to its first await: the credentials check throws,
\* otherwise the fetch is in flight
StartBaseRefresh ==
    IF ~shopifyCredentials
    THEN [pc |-> "failed", data |-> <<>>, step |-> "credentials"]
    ELSE [pc |-> "fetch", data |-> <<>>, step |-> ""]

\* refreshExternalProducts up to its first await: a no-op without a store,
\* otherwise the scraper process is running
StartExternalRefresh ==
    IF ~useMcpScraper
    THEN [pc |-> "done", data |-> <<>>, step |-> ""]
    ELSE [pc |-> "spawn", data |-> <<>>, step |-> ""]

\* what is left of a record when the turn is over
AfterTurn(record, idle) == IF Settled(record.pc) THEN idle ELSE record

----------------------------------------------------------------------------
(* HTTP responses *)

\* a response is the route that sent it, its status and its body: res.json
\* sends an object, res.send a text, res.end nothing
MissingQuery ==
    [route |-> "/agent", status |-> 400, body |-> [error |-> "Missing query"]]
NoProduct ==
    [route |-> "/agent", status |-> 404,
     body |-> [error |-> "No available products match the request"]]
AgentFailed ==
    [route |-> "/agent", status |-> 500,
     body |-> [error |-> "Agent failed to complete request"]]

\* res.json({ product: {...}, payment_intent_client_secret })
AgentOk(product, paymentIntent) ==
    [route |-> "/agent", status |-> 200,
     body |-> [product |-> [title |-> product.title,
                            description |-> product.description,
                            price_display |-> Coalesce(product.price_display,
                                                       Str("Price unavailable"))],
               payment_intent_client_secret |-> paymentIntent.client_secret]]

SecretMissing ==
    [route |-> "/webhooks/shopify/products", status |-> 500, body |-> [text |-> ""]]
InvalidHmac ==
    [route |-> "/webhooks/shopify/products", status |-> 401,
     body |-> [text |-> "Invalid HMAC"]]

\* a webhook that answers 200 however its refresh settled
WebhookAlwaysOk(ok) ==
    [route |-> "/webhooks/shopify/products", status |-> 200, body |-> [text |-> "ok"]]

\* the answer of the webhook once its refresh has settled
WebhookRefreshResponse(ok) ==
    IF ok
    THEN [route |-> "/webhooks/shopify/products", status |-> 200, body |-> [text |-> "ok"]]
    ELSE [route |-> "/webhooks/shopify/products", status |-> 500,
          body |-> [text |-> "refresh failed"]]

\* res.json({ publishableKey: stripePublishableKey || null, stripeConfigured })
ConfigResponse ==
    [route |-> "/config", status |-> 200,
     body |-> [publishableKey |-> IF stripePublishableKey = ""
                                  THEN Null ELSE Str(stripePublishableKey),
               stripeConfigured |-> stripeConfigured]]

----------------------------------------------------------------------------
(* /agent *)

\* a handler without the catch: an exception of the selection is answered
\* like an empty catalog
RespondThrowAsNotFound(query, base, external) ==
    LET products == FilterProducts(base, external)
        product == selectProduct(products, query.v)
        paymentIntent == createPaymentIntent(stripeConfigured, 100, product.id)
    IN  IF product.k \in {"throw", "null"}
        THEN [pc |-> "done", product |-> Null, resp |-> NoProduct]
        ELSE IF paymentIntent.k = "resolved"
        THEN [pc |-> "done", product |-> product, resp |-> AgentOk(product, paymentIntent)]
        ELSE [pc |-> "stripe", product |-> product, resp |-> Null]

\* the handler from the return of loadProducts to its next await or response
Respond(query, base, external) ==
    LET products == FilterProducts(base, external)
        product == selectProduct(products, query.v)
        paymentIntent == createPaymentIntent(stripeConfigured, 100, product.id)
    IN  IF product.k = "throw"
        THEN [pc |-> "done", product |-> Null, resp |-> AgentFailed]
        ELSE IF product.k = "null"
        THEN [pc |-> "done", product |-> Null, resp |-> NoProduct]
        ELSE IF paymentIntent.k = "resolved"
        THEN [pc |-> "done", product |-> product, resp |-> AgentOk(product, paymentIntent)]
        ELSE [pc |-> "stripe", product |-> product, resp |-> Null]

\* a loadProducts that reads the external file whenever the scraper is in
\* use, whatever is cached
ExternalStageAlwaysRead(query, base, external) ==
    IF useMcpScraper
    THEN [pc |-> "readExternal", product |-> Null, resp |-> Null]
    ELSE Respond(query, base, external)

\* loadProducts from its second if: the external file is read when the
\* scraper is in use and nothing is cached, otherwise the products are returned
ExternalStage(query, base, external) ==
    IF useMcpScraper /\ external = <<>>
    THEN [pc |-> "readExternal", product |-> Null, resp |-> Null]
    ELSE Respond(query, base, external)

\* the request a moves on as the record out says; out.resp is the response
\* sent, if any
Advance(a, out) ==
    /\ agent' = [agent EXCEPT ![a].pc = out.pc, ![a].product = out.product]
    /\ response' = out.resp

----------------------------------------------------------------------------
(* Initial state: the module has been loaded, so the two startup refreshes
   have run up to their first await *)

ServerInit ==
    /\ env \in Environments
    /\ baseProductsCache = <<>>
    /\ externalProductsCache = <<>>
    /\ baseFile \in {Unreadable, Arr(StaleProducts)}
    /\ externalFile \in IF useMcpScraper /\ baseFile = Unreadable
                        THEN {Unreadable, Arr(TransformAll(<<RawMug>>))}
                        ELSE {Unreadable}
    /\ externalRawFile = Unreadable
    /\ baseRefresh = [o \in RefreshCallers |->
                        IF o = StartupId THEN AfterTurn(StartBaseRefresh, Idle) ELSE Idle]
    /\ externalRefresh = [o \in RefreshCallers |->
                            IF o = StartupId THEN AfterTurn(StartExternalRefresh, Idle) ELSE Idle]
    /\ agent = [a \in AgentIds |-> NoAgent]
    /\ hook = [w \in HookIds |-> NoHook]
    /\ response = Null

MatchIdle ==
    /\ matchInput = Null
    /\ matchState = Null

NormIdle ==
    /\ normInput = Null
    /\ normState = Null

\* the stores a deployment can list in MCP_STORES
StoreA == <<"a", ".", "c", "o">>
StoreB == <<"b", "-", "c", "o">>
Stores == {StoreA, StoreB}

\* the callers of the multi-store refresh: the startup call and the timer
StoreCallers == {StartupId} \cup CronIds

\* no call of the multi-store refreshExternalProducts: index is the position
\* of the for loop in mcpStores, results the outcome of each store the loop
\* is done with
NoCycle ==
    [pc |-> "idle", index |-> 0, aggregated |-> <<>>, successCount |-> 0, results |-> <<>>]

StoresIdle ==
    /\ mcpStores = <<>>
    /\ storeRawFile = [s \in Stores |-> Unreadable]
    /\ storesRefresh = [o \in StoreCallers |-> NoCycle]

Init == ServerInit /\ MatchIdle /\ NormIdle /\ StoresIdle

----------------------------------------------------------------------------
(* Settling of a refresh: the caller's continuation runs in the same turn *)

\* a loadProducts without the catch around its lazy-load refresh: a failed
\* refresh reaches the handler's catch
SettleBaseRethrow(o, ok, cache) ==
    IF o \in AgentIds
    THEN /\ baseProductsCache' = cache
         /\ Advance(o, IF ok
                       THEN ExternalStage(agent[o].query, cache, externalProductsCache)
                       ELSE [pc |-> "done", product |-> Null, resp |-> AgentFailed])
         /\ UNCHANGED hook
    ELSE IF o \in HookIds
    THEN /\ baseProductsCache' = cache
         /\ hook' = [hook EXCEPT ![o].pc = "done"]
         /\ response' = WebhookRefreshResponse(ok)
         /\ UNCHANGED agent
    ELSE /\ baseProductsCache' = cache
         /\ UNCHANGED <<agent, hook, response>>

\* the promise of refreshBaseProducts called by o settles; cache is the value
\* of baseProductsCache at that moment
SettleBase(o, ok, cache) ==
    IF o \in AgentIds
    THEN LET base == IF ok THEN cache ELSE <<>>
         IN  /\ baseProductsCache' = base
             /\ Advance(o, ExternalStage(agent[o].query, base, externalProductsCache))
             /\ UNCHANGED hook
    ELSE IF o \in HookIds
    THEN /\ baseProductsCache' = cache
         /\ hook' = [hook EXCEPT ![o].pc = "done"]
         /\ response' = WebhookRefreshResponse(ok)
         /\ UNCHANGED agent
    ELSE /\ baseProductsCache' = cache
         /\ UNCHANGED <<agent, hook, response>>

\* the promise of refreshExternalProducts called by o settles
SettleExternal(o, ok, cache) ==
    IF o \in AgentIds
    THEN LET external == IF ok THEN cache ELSE <<>>
         IN  /\ externalProductsCache' = external
             /\ Advance(o, Respond(agent[o].query, baseProductsCache, external))
    ELSE /\ externalProductsCache' = cache
         /\ UNCHANGED <<agent, response>>

\* the Shopify request of o's refresh answers 2xx with the list data
BaseFetchOk(o, data) ==
    /\ Quiet
    /\ baseRefresh[o].pc = "fetch"
    /\ baseRefresh' = [baseRefresh EXCEPT ![o] = [pc |-> "write", data |-> data, step |-> ""]]
    /\ baseProductsCache' = data
    /\ UNCHANGED <<env, externalProductsCache, baseFile, externalFile, externalRawFile,
                   externalRefresh, agent, hook, response, matchVars, normVars, storeVars>>

\* the Shopify request of o's refresh fails or answers non-2xx
BaseFetchFail(o) ==
    /\ Quiet
    /\ baseRefresh[o].pc = "fetch"
    /\ baseRefresh' = [baseRefresh EXCEPT ![o] = [pc |-> "failed", data |-> <<>>, step |-> "fetch"]]
    /\ SettleBase(o, FALSE, baseProductsCache)
    /\ UNCHANGED <<env, externalProductsCache, baseFile, externalFile, externalRawFile,
                   externalRefresh, matchVars, normVars, storeVars>>

\* fs.writeFile(baseProductsFilePath, ...) of o's refresh completes
BaseWriteOk(o) ==
    /\ Quiet
    /\ baseRefresh[o].pc = "write"
    /\ baseFile' = Arr(baseRefresh[o].data)
    /\ baseRefresh' = [baseRefresh EXCEPT ![o].pc = "done"]
    /\ SettleBase(o, TRUE, baseProductsCache)
    /\ UNCHANGED <<env, externalProductsCache, externalFile, externalRawFile,
                   externalRefresh, matchVars, normVars, storeVars>>

\* fs.writeFile of o's refresh fails, leaving the file as it was or truncated
BaseWriteFail(o, left) ==
    /\ Quiet
    /\ baseRefresh[o].pc = "write"
    /\ left \in {baseFile, Unreadable}
    /\ baseFile' = left
    /\ baseRefresh' = [baseRefresh EXCEPT ![o].pc = "failed", ![o].step = "write"]
    /\ SettleBase(o, FALSE, baseProductsCache)
    /\ UNCHANGED <<env, externalProductsCache, externalFile, externalRawFile,
                   externalRefresh, matchVars, normVars, storeVars>>

\* the scraper process of o's refresh exits with code 0, leaving raw output
ExternalExitOk(o, raw) ==
    /\ Quiet
    /\ externalRefresh[o].pc = "spawn"
    /\ externalRawFile' = raw
    /\ externalRefresh' = [externalRefresh EXCEPT ![o].pc = "readRaw"]
    /\ UNCHANGED <<env, baseProductsCache, externalProductsCache, baseFile, externalFile,
                   baseRefresh, agent, hook, response, matchVars, normVars, storeVars>>

\* the scraper process exits with a non-zero code
ExternalExitFail(o) ==
    /\ Quiet
    /\ externalRefresh[o].pc = "spawn"
    /\ externalRefresh' = [externalRefresh EXCEPT ![o].pc = "failed", ![o].step = "exit"]
    /\ SettleExternal(o, FALSE, externalProductsCache)
    /\ UNCHANGED <<env, baseProductsCache, baseFile, externalFile, externalRawFile,
                   baseRefresh, hook, matchVars, normVars, storeVars>>

\* python3 cannot be started: spawn reports it by an 'error' event on the
\* child, for which runMcpScraper registers no listener
ExternalSpawnError(o) ==
    /\ Quiet
    /\ externalRefresh[o].pc = "spawn"
    /\ externalRefresh' = [externalRefresh EXCEPT ![o].pc = "crashed"]
    /\ UNCHANGED <<env, baseProductsCache, externalProductsCache, baseFile, externalFile,
                   externalRawFile, baseRefresh, agent, hook, response,
                   matchVars, normVars, storeVars>>

\* readJsonFile(externalRawProductsFilePath) settles: the products are
\* transformed and cached and the write is started, or the refresh rejects
ExternalReadRaw(o) ==
    /\ Quiet
    /\ externalRefresh[o].pc = "readRaw"
    /\ IF externalRawFile.k = "array"
       THEN /\ externalRefresh' = [externalRefresh EXCEPT ![o] =
                    [pc |-> "write", data |-> TransformAll(externalRawFile.v), step |-> ""]]
            /\ externalProductsCache' = TransformAll(externalRawFile.v)
            /\ UNCHANGED <<agent, response>>
       ELSE /\ externalRefresh' = [externalRefresh EXCEPT ![o].pc = "failed", ![o].step = "read"]
            /\ SettleExternal(o, FALSE, externalProductsCache)
    /\ UNCHANGED <<env, baseProductsCache, baseFile, externalFile, externalRawFile,
                   baseRefresh, hook, matchVars, normVars, storeVars>>

\* fs.writeFile(externalProductsFilePath, ...) completes
ExternalWriteOk(o) ==
    /\ Quiet
    /\ externalRefresh[o].pc = "write"
    /\ externalFile' = Arr(externalRefresh[o].data)
    /\ externalRefresh' = [externalRefresh EXCEPT ![o].pc = "done"]
    /\ SettleExternal(o, TRUE, externalProductsCache)
    /\ UNCHANGED <<env, baseProductsCache, baseFile, externalRawFile,
                   baseRefresh, hook, matchVars, normVars, storeVars>>

\* fs.writeFile(externalProductsFilePath, ...) fails
ExternalWriteFail(o, left) ==
    /\ Quiet
    /\ externalRefresh[o].pc = "write"
    /\ left \in {externalFile, Unreadable}
    /\ externalFile' = left
    /\ externalRefresh' = [externalRefresh EXCEPT ![o].pc = "failed", ![o].step = "write"]
    /\ SettleExternal(o, FALSE, externalProductsCache)
    /\ UNCHANGED <<env, baseProductsCache, baseFile, externalRawFile,
                   baseRefresh, hook, matchVars, normVars, storeVars>>

\* cron.schedule('* * * * *', ...): both refreshes are called, neither awaited
CronTick(b, e) ==
    /\ Quiet
    /\ b \in FirstFree(CronIds, [o \in CronIds |-> baseRefresh[o].pc # "idle"])
    /\ e \in FirstFree(CronIds, [o \in CronIds |-> externalRefresh[o].pc # "idle"])
    /\ InFlight + (IF Running(StartBaseRefresh.pc) THEN 1 ELSE 0)
                + (IF Running(StartExternalRefresh.pc) THEN 1 ELSE 0) <= MaxInFlight
    /\ baseRefresh' = [baseRefresh EXCEPT ![b] = StartBaseRefresh]
    /\ externalRefresh' = [externalRefresh EXCEPT ![e] = StartExternalRefresh]
    /\ UNCHANGED <<env, baseProductsCache, externalProductsCache, baseFile, externalFile,
                   externalRawFile, agent, hook, response, matchVars, normVars, storeVars>>

\* the turn of the event loop is over: the response has left and the settled
\* calls are gone
EndTurn ==
    /\ ~ProcessExited
    /\ ~Quiet
    /\ response' = Null
    /\ baseRefresh' = [o \in RefreshCallers |-> AfterTurn(baseRefresh[o], Idle)]
    /\ externalRefresh' = [o \in RefreshCallers |-> AfterTurn(externalRefresh[o], Idle)]
    /\ agent' = [a \in AgentIds |-> AfterTurn(agent[a], NoAgent)]
    /\ hook' = [w \in HookIds |-> AfterTurn(hook[w], NoHook)]
    /\ UNCHANGED <<env, baseProductsCache, externalProductsCache, baseFile, externalFile,
                   externalRawFile, matchVars, normVars, storeVars>>

----------------------------------------------------------------------------
(* Endpoints *)

\* GET /config
GetConfig ==
    /\ Quiet
    /\ response' = ConfigResponse
    /\ UNCHANGED <<env, baseProductsCache, externalProductsCache, baseFile, externalFile,
                   externalRawFile, baseRefresh, externalRefresh, agent, hook,
                   matchVars, normVars, storeVars>>

\* a delivery to POST /webhooks/shopify/products arrives, with the decoded
\* bytes of its X-Shopify-Hmac-Sha256 header and its raw body
WebhookArrive(w, headerBuffer, body) ==
    /\ Quiet
    /\ InFlight < MaxInFlight
    /\ w \in FirstFree(HookIds, [o \in HookIds |-> hook[o].pc # "idle"])
    /\ hook' = [hook EXCEPT ![w] = [pc |-> "received", header |-> headerBuffer, body |-> body]]
    /\ UNCHANGED <<env, baseProductsCache, externalProductsCache, baseFile, externalFile,
                   externalRawFile, baseRefresh, externalRefresh, agent, response,
                   matchVars, normVars, storeVars>>

\* the webhook handler up to its first await or its response
WebhookRequest(w) ==
    /\ Quiet
    /\ hook[w].pc = "received"
    /\ IF shopifyWebhookSecret = <<>>
       THEN /\ hook' = [hook EXCEPT ![w].pc = "done"]
            /\ response' = SecretMissing
            /\ UNCHANGED baseRefresh
       ELSE IF ~SignatureAccepted(hook[w].header, Hmac(shopifyWebhookSecret, hook[w].body))
       THEN /\ hook' = [hook EXCEPT ![w].pc = "done"]
            /\ response' = InvalidHmac
            /\ UNCHANGED baseRefresh
       ELSE /\ baseRefresh' = [baseRefresh EXCEPT ![w] = StartBaseRefresh]
            /\ IF StartBaseRefresh.pc = "failed"
               THEN /\ hook' = [hook EXCEPT ![w].pc = "done"]
                    /\ response' = WebhookRefreshResponse(FALSE)
               ELSE /\ hook' = [hook EXCEPT ![w].pc = "refresh"]
                    /\ UNCHANGED response
    /\ UNCHANGED <<env, baseProductsCache, externalProductsCache, baseFile, externalFile,
                   externalRawFile, externalRefresh, agent, matchVars, normVars, storeVars>>

\* a request to POST /agent arrives with req.body.query = query
AgentArrive(a, query) ==
    /\ Quiet
    /\ InFlight < MaxInFlight
    /\ a \in FirstFree(AgentIds, [o \in AgentIds |-> agent[o].pc # "idle"])
    /\ agent' = [agent EXCEPT ![a] = [pc |-> "received", query |-> query, product |-> Null]]
    /\ UNCHANGED <<env, baseProductsCache, externalProductsCache, baseFile, externalFile,
                   externalRawFile, baseRefresh, externalRefresh, hook, response,
                   matchVars, normVars, storeVars>>

\* the /agent handler up to its first await or its response
AgentRequest(a) ==
    /\ Quiet
    /\ agent[a].pc = "received"
    /\ IF ~Truthy(agent[a].query) \/ agent[a].query.k # "string"
       THEN Advance(a, [pc |-> "done", product |-> Null, resp |-> MissingQuery])
       ELSE IF baseProductsCache = <<>>
       THEN Advance(a, [pc |-> "readBase", product |-> Null, resp |-> Null])
       ELSE Advance(a, ExternalStage(agent[a].query, baseProductsCache, externalProductsCache))
    /\ UNCHANGED <<env, baseProductsCache, externalProductsCache, baseFile, externalFile,
                   externalRawFile, baseRefresh, externalRefresh, hook, matchVars, normVars, storeVars>>

\* readJsonFile(baseProductsFilePath) settles inside loadProducts: the parsed
\* file becomes the cache, or the lazy-load refresh is called
AgentReadBase(a) ==
    /\ Quiet
    /\ agent[a].pc = "readBase"
    /\ IF baseFile.k = "array"
       THEN /\ baseProductsCache' = baseFile.v
            /\ Advance(a, ExternalStage(agent[a].query, baseFile.v, externalProductsCache))
            /\ UNCHANGED baseRefresh
       ELSE /\ baseRefresh' = [baseRefresh EXCEPT ![a] = StartBaseRefresh]
            /\ IF StartBaseRefresh.pc = "failed"
               THEN /\ baseProductsCache' = <<>>
                    /\ Advance(a, ExternalStage(agent[a].query, <<>>, externalProductsCache))
               ELSE /\ Advance(a, [pc |-> "refreshBase", product |-> Null, resp |-> Null])
                    /\ UNCHANGED baseProductsCache
    /\ UNCHANGED <<env, externalProductsCache, baseFile, externalFile, externalRawFile,
                   externalRefresh, hook, matchVars, normVars, storeVars>>

\* readJsonFile(externalProductsFilePath) settles inside loadProducts
AgentReadExternal(a) ==
    /\ Quiet
    /\ agent[a].pc = "readExternal"
    /\ IF externalFile.k = "array"
       THEN /\ externalProductsCache' = externalFile.v
            /\ Advance(a, Respond(agent[a].query, baseProductsCache, externalFile.v))
            /\ UNCHANGED externalRefresh
       ELSE /\ externalRefresh' = [externalRefresh EXCEPT ![a] = StartExternalRefresh]
            /\ Advance(a, [pc |-> "refreshExternal", product |-> Null, resp |-> Null])
            /\ UNCHANGED externalProductsCache
    /\ UNCHANGED <<env, baseProductsCache, baseFile, externalFile, externalRawFile,
                   baseRefresh, hook, matchVars, normVars, storeVars>>

\* stripe.paymentIntents.create resolves
StripeOk(a) ==
    /\ Quiet
    /\ agent[a].pc = "stripe"
    /\ Advance(a, [pc |-> "done", product |-> agent[a].product,
                   resp |-> AgentOk(agent[a].product,
                                    [id |-> "pi_live", client_secret |-> "pi_live_secret"])])
    /\ UNCHANGED <<env, baseProductsCache, externalProductsCache, baseFile, externalFile,
                   externalRawFile, baseRefresh, externalRefresh, hook, matchVars, normVars, storeVars>>

\* stripe.paymentIntents.create rejects: the handler's catch answers
StripeFail(a) ==
    /\ Quiet
    /\ agent[a].pc = "stripe"
    /\ Advance(a, [pc |-> "done", product |-> Null, resp |-> AgentFailed])
    /\ UNCHANGED <<env, baseProductsCache, externalProductsCache, baseFile, externalFile,
                   externalRawFile, baseRefresh, externalRefresh, hook, matchVars, normVars, storeVars>>

----------------------------------------------------------------------------
(* The server *)

Next ==
    \/ EndTurn
    \/ GetConfig
    \/ \E b \in CronIds, e \in CronIds : CronTick(b, e)
    \/ \E o \in RefreshCallers, data \in FetchResults : BaseFetchOk(o, data)
    \/ \E o \in RefreshCallers : BaseFetchFail(o)
    \/ \E o \in RefreshCallers : BaseWriteOk(o)
    \/ \E o \in RefreshCallers, left \in {baseFile, Unreadable} : BaseWriteFail(o, left)
    \/ \E o \in RefreshCallers, raw \in {Arr(r) : r \in RawResults} \cup {Unreadable} :
          ExternalExitOk(o, raw)
    \/ \E o \in RefreshCallers : ExternalExitFail(o)
    \/ \E o \in RefreshCallers : ExternalSpawnError(o)
    \/ \E o \in RefreshCallers : ExternalReadRaw(o)
    \/ \E o \in RefreshCallers : ExternalWriteOk(o)
    \/ \E o \in RefreshCallers, left \in {externalFile, Unreadable} : ExternalWriteFail(o, left)
    \/ \E w \in HookIds, headerBuffer \in Headers, body \in Bodies :
          WebhookArrive(w, headerBuffer, body)
    \/ \E w \in HookIds : WebhookRequest(w)
    \/ \E a \in AgentIds, query \in Queries : AgentArrive(a, query)
    \/ \E a \in AgentIds : AgentRequest(a)
    \/ \E a \in AgentIds : AgentReadBase(a)
    \/ \E a \in AgentIds : AgentReadExternal(a)
    \/ \E a \in AgentIds : StripeOk(a)
    \/ \E a \in AgentIds : StripeFail(a)

Spec == Init /\ [][Next]_vars

----------------------------------------------------------------------------
(* The matcher on its own: loadProducts' filter followed by selectProduct,
   applied to every query and catalog of the bounded input space *)

\* the sequences over S of length 0..n
SeqsUpTo(S, n) == UNION {[1..k -> S] : k \in 0..n}

\* the server as it is after a start with nothing configured and no files
ServerAtRest ==
    /\ ServerInit
    /\ env = Env("", "", "", <<>>, "")
    /\ baseFile = Unreadable

\* the products a base catalog is drawn from
ProductPool == {RedMug, BluePlate, RedPlate, Mugs, BlueMug, RedBowl, BlueBowl}

\* queries: empty, separators only, two words, mixed case, comma-separated,
\* and one that matches nothing
MatchQueries ==
    {<<>>, <<" ", ",">>, <<"r", "e", "d", " ", "m", "u", "g">>, <<"B", "l", "u", "e">>,
     <<"m", "u", "g", ",", "b", "o", "w", "l">>, <<"x">>}

MatchStart == [pc |-> "start", products |-> <<>>, result |-> Null]

MatchInit ==
    /\ ServerAtRest
    /\ NormIdle
    /\ StoresIdle
    /\ matchInput \in [query : MatchQueries,
                       base : SeqsUpTo(ProductPool, MaxCatalog),
                       external : {<<>>} \cup {TransformAll(r) : r \in RawResults}]
    /\ matchState = MatchStart

\* lines 145-159 of loadProducts on the two lists
MatchLoad ==
    /\ matchState.pc = "start"
    /\ matchState' = [matchState EXCEPT
                        !.pc = "loaded",
                        !.products = FilterProducts(matchInput.base, matchInput.external)]
    /\ UNCHANGED <<serverVars, matchInput, normVars, storeVars>>

\* selectProduct(products, query)
MatchSelect ==
    /\ matchState.pc = "loaded"
    /\ matchState' = [matchState EXCEPT
                        !.pc = "selected",
                        !.result = selectProduct(matchState.products, matchInput.query)]
    /\ UNCHANGED <<serverVars, matchInput, normVars, storeVars>>

MatchNext == MatchLoad \/ MatchSelect

SpecMatch == MatchInit /\ [][MatchNext]_vars

----------------------------------------------------------------------------
(* normalizeDescription on its own, applied to every description that is a
   sequence of at most MaxPieces pieces, and to the documented example *)

TagPieces == {<<"<", "p", ">">>, <<"<", "/", "p", ">">>}
SpacePieces == {<<" ">>, <<"\n">>}

Amp == <<"&", "a", "m", "p", ";">>
Lt == <<"&", "l", "t", ";">>
Gt == <<"&", "g", "t", ";">>
Quot == <<"&", "q", "u", "o", "t", ";">>
Apos == <<"&", "#", "3", "9", ";">>
Nbsp == <<"&", "n", "b", "s", "p", ";">>
KnownEntities == {Amp, Lt, Gt, Quot, Apos, Nbsp}

\* entities the map does not hold: an unknown name, and a known one in capitals
UnknownEntities == {<<"&", "a", "b", ";">>, <<"&", "A", "M", "P", ";">>}

\* plain text, the tail of an entity, and a '<' that opens no tag
TextPieces == {<<"A">>, <<"B">>, <<"l", "t", ";">>, <<"<", ">">>}

Pieces == TagPieces \cup SpacePieces \cup KnownEntities \cup UnknownEntities \cup TextPieces

\* "<p>A &amp; B</p>"
ExamplePieces == <<<<"<", "p", ">">>, <<"A">>, <<" ">>, Amp, <<" ">>, <<"B">>, <<"<", "/", "p", ">">>>>

\* the text of a description given by its pieces
RECURSIVE Concat(_)
Concat(pieces) == IF pieces = <<>> THEN <<>> ELSE pieces[1] \o Concat(Tail(pieces))

NormStart == [pc |-> "start", result |-> Null]

NormInit ==
    /\ ServerAtRest
    /\ MatchIdle
    /\ StoresIdle
    /\ normInput \in SeqsUpTo(Pieces, MaxPieces) \cup {ExamplePieces}
    /\ normState = NormStart

\* normalizeDescription(html) on the text of the pieces
Normalize ==
    /\ normState.pc = "start"
    /\ normState' = [pc |-> "done", result |-> normalizeDescription(Str(Concat(normInput)))]
    /\ UNCHANGED <<serverVars, matchVars, normInput, storeVars>>

NormNext == Normalize

SpecNorm == NormInit /\ [][NormNext]_vars

----------------------------------------------------------------------------
(* The multi-store external refresh: MCP_STORES lists the stores, each cycle
   runs the scraper for one store after the other *)

MaxStores == 2

\* MCP_STORES split at commas, trimmed, empty names removed
StoreConfigs == SeqsUpTo(Stores, MaxStores)

\* what the scraper of a store writes when it exits with code 0
RawBowl ==
    [product_id |-> Undefined,
     title |-> Str(<<"B", "o", "w", "l">>), description |-> Str(<<"B">>),
     product_type |-> Undefined, tags |-> Undefined, available |-> Undefined,
     variants |-> Undefined]

ScraperOutputs(store) ==
    IF store = StoreA
    THEN {Arr(<<RawMug, RawSoldOut>>), Unreadable}
    ELSE {Arr(<<RawBowl>>), Unreadable}

\* store.replace(/[^a-z0-9]/gi, '_'), 'external' for no store
sanitizeStoreDomain(store) ==
    IF store = <<>>
    THEN <<"e", "x", "t", "e", "r", "n", "a", "l">>
    ELSE [i \in 1..Len(store) |->
            IF \/ \E j \in 1..26 : store[i] = Lower[j] \/ store[i] = Upper[j]
               \/ store[i] \in Digits
            THEN store[i] ELSE "_"]

\* an array index in a template literal
IndexText(index) == <<"0", "1", "2", "3", "4", "5", "6", "7", "8", "9">>[index + 1]

\* transformMcpProduct(product, index, storeDomain) of the multi-store
\* server: the generated id carries the store
transformMcpProductOfStore(product, index, storeDomain) ==
    [transformMcpProduct(product, index) EXCEPT
        !.id = Coalesce(extractNumericId(product.product_id),
                        Str(<<"m", "c", "p", "_">> \o sanitizeStoreDomain(storeDomain)
                              \o <<"_", IndexText(index)>>))]

\* rawProducts.map((product, index) => transformMcpProduct(product, index, storeDomain))
TransformStore(rawProducts, storeDomain) ==
    [i \in 1..Len(rawProducts) |->
        transformMcpProductOfStore(rawProducts[i], i - 1, storeDomain)]

\* the outcome of a store whose runMcpScraperForStore rejected
StoreFailure == [k |-> "failed"]

\* a loop body that puts the products of a store in front of the others
StoreSucceededInFront(cycle, storeProducts) ==
    [cycle EXCEPT !.aggregated = storeProducts \o @,
                  !.successCount = @ + 1,
                  !.results = Append(@, Arr(storeProducts))]

\* the try of the loop body: aggregated.push(...storeProducts); successCount += 1
StoreSucceeded(cycle, storeProducts) ==
    [cycle EXCEPT !.aggregated = @ \o storeProducts,
                  !.successCount = @ + 1,
                  !.results = Append(@, Arr(storeProducts))]

\* the catch of the loop body: lastError = error
StoreFailed(cycle) == [cycle EXCEPT !.results = Append(@, StoreFailure)]

\* refreshExternalProducts up to its first await: a no-op without stores,
\* otherwise the scraper of the first store is running
StartStoresRefresh ==
    IF mcpStores = <<>>
    THEN [NoCycle EXCEPT !.pc = "done"]
    ELSE [NoCycle EXCEPT !.pc = "spawn", !.index = 1]

\* a scraper could not be started: the child's 'error' event has no listener
\* and ends the process
StoresCrashed == \E o \in StoreCallers : storesRefresh[o].pc = "crashed"

\* the current turn has settled nothing and the process is running
StoresQuiet ==
    /\ ~StoresCrashed
    /\ \A o \in StoreCallers : ~Settled(storesRefresh[o].pc)

\* the loop of caller o goes on after a store: the next store's scraper is
\* started, or the loop is over and the refresh throws or installs aggregated
\* and starts the write
NextStore(o, cycle) ==
    IF cycle.index < Len(mcpStores)
    THEN /\ storesRefresh' = [storesRefresh EXCEPT
                                ![o] = [cycle EXCEPT !.pc = "spawn", !.index = @ + 1]]
         /\ UNCHANGED externalProductsCache
    ELSE IF cycle.successCount = 0
    THEN /\ storesRefresh' = [storesRefresh EXCEPT ![o] = [cycle EXCEPT !.pc = "failed"]]
         /\ UNCHANGED externalProductsCache
    ELSE /\ storesRefresh' = [storesRefresh EXCEPT ![o] = [cycle EXCEPT !.pc = "write"]]
         /\ externalProductsCache' = cycle.aggregated

StoresInit ==
    /\ env = Env("", "", "", <<>>, "")
    /\ baseProductsCache = <<>>
    /\ externalProductsCache = <<>>
    /\ baseFile = Unreadable
    /\ externalFile \in {Unreadable, Arr(TransformStore(<<RawMug>>, StoreA))}
    /\ externalRawFile = Unreadable
    /\ baseRefresh = [o \in RefreshCallers |-> Idle]
    /\ externalRefresh = [o \in RefreshCallers |-> Idle]
    /\ agent = [a \in AgentIds |-> NoAgent]
    /\ hook = [w \in HookIds |-> NoHook]
    /\ response = Null
    /\ MatchIdle
    /\ NormIdle
    /\ mcpStores \in StoreConfigs
    /\ storeRawFile = [s \in Stores |-> Unreadable]
    /\ storesRefresh = [o \in StoreCallers |->
                          IF o = StartupId /\ mcpStores # <<>>
                          THEN StartStoresRefresh ELSE NoCycle]

\* the scraper of the store caller o is at exits with code 0, leaving raw
StoreExitOk(o, raw) ==
    /\ StoresQuiet
    /\ storesRefresh[o].pc = "spawn"
    /\ raw \in ScraperOutputs(mcpStores[storesRefresh[o].index])
    /\ storeRawFile' = [storeRawFile EXCEPT ![mcpStores[storesRefresh[o].index]] = raw]
    /\ storesRefresh' = [storesRefresh EXCEPT ![o].pc = "readRaw"]
    /\ UNCHANGED <<serverVars, matchVars, normVars, mcpStores>>

\* the scraper exits with a non-zero code: the loop's catch runs
StoreExitFail(o) ==
    /\ StoresQuiet
    /\ storesRefresh[o].pc = "spawn"
    /\ NextStore(o, StoreFailed(storesRefresh[o]))
    /\ UNCHANGED <<env, baseProductsCache, baseFile, externalFile, externalRawFile,
                   baseRefresh, externalRefresh, agent, hook, response,
                   matchVars, normVars, mcpStores, storeRawFile>>

\* python3 cannot be started
StoreSpawnError(o) ==
    /\ StoresQuiet
    /\ storesRefresh[o].pc = "spawn"
    /\ storesRefresh' = [storesRefresh EXCEPT ![o].pc = "crashed"]
    /\ UNCHANGED <<serverVars, matchVars, normVars, mcpStores, storeRawFile>>

\* readJsonFile(rawFilePath) settles: the products are transformed and pushed,
\* or the loop's catch runs
StoreReadRaw(o) ==
    LET cycle == storesRefresh[o]
        store == mcpStores[cycle.index]
    IN  /\ StoresQuiet
        /\ cycle.pc = "readRaw"
        /\ IF storeRawFile[store].k = "array"
           THEN NextStore(o, StoreSucceeded(cycle, TransformStore(storeRawFile[store].v, store)))
           ELSE NextStore(o, StoreFailed(cycle))
        /\ UNCHANGED <<env, baseProductsCache, baseFile, externalFile, externalRawFile,
                       baseRefresh, externalRefresh, agent, hook, response,
                       matchVars, normVars, mcpStores, storeRawFile>>

\* fs.writeFile(externalProductsFilePath, ...) of o's cycle completes
StoresWriteOk(o) ==
    /\ StoresQuiet
    /\ storesRefresh[o].pc = "write"
    /\ externalFile' = Arr(storesRefresh[o].aggregated)
    /\ storesRefresh' = [storesRefresh EXCEPT ![o].pc = "done"]
    /\ UNCHANGED <<env, baseProductsCache, externalProductsCache, baseFile, externalRawFile,
                   baseRefresh, externalRefresh, agent, hook, response,
                   matchVars, normVars, mcpStores, storeRawFile>>

\* fs.writeFile fails, leaving the file as it was or truncated
StoresWriteFail(o, left) ==
    /\ StoresQuiet
    /\ storesRefresh[o].pc = "write"
    /\ left \in {externalFile, Unreadable}
    /\ externalFile' = left
    /\ storesRefresh' = [storesRefresh EXCEPT ![o].pc = "failed"]
    /\ UNCHANGED <<env, baseProductsCache, externalProductsCache, baseFile, externalRawFile,
                   baseRefresh, externalRefresh, agent, hook, response,
                   matchVars, normVars, mcpStores, storeRawFile>>

\* cron.schedule('* * * * *', ...): refreshExternalProducts('cron-1m')
StoresCronTick(o) ==
    /\ StoresQuiet
    /\ o \in FirstFree(CronIds, [c \in CronIds |-> storesRefresh[c].pc # "idle"])
    /\ storesRefresh' = [storesRefresh EXCEPT ![o] = StartStoresRefresh]
    /\ UNCHANGED <<serverVars, matchVars, normVars, mcpStores, storeRawFile>>

\* the turn is over: the settled calls are gone
StoresEndTurn ==
    /\ ~StoresCrashed
    /\ \E o \in StoreCallers : Settled(storesRefresh[o].pc)
    /\ storesRefresh' = [o \in StoreCallers |-> AfterTurn(storesRefresh[o], NoCycle)]
    /\ UNCHANGED <<serverVars, matchVars, normVars, mcpStores, storeRawFile>>

StoresNext ==
    \/ StoresEndTurn
    \/ \E o \in CronIds : StoresCronTick(o)
    \/ \E o \in StoreCallers, raw \in UNION {ScraperOutputs(s) : s \in Stores} :
           StoreExitOk(o, raw)
    \/ \E o \in StoreCallers : StoreExitFail(o)
    \/ \E o \in StoreCallers : StoreSpawnError(o)
    \/ \E o \in StoreCallers : StoreReadRaw(o)
    \/ \E o \in StoreCallers : StoresWriteOk(o)
    \/ \E o \in StoreCallers, left \in {externalFile, Unreadable} : StoresWriteFail(o, left)

SpecStores == StoresInit /\ [][StoresNext]_vars

----------------------------------------------------------------------------
(* Properties *)

Range(seq) == {seq[i] : i \in 1..Len(seq)}

\* every product the Shopify API, the files and the scraper supply to the server
ServerProducts ==
    UNION {Range(c) : c \in FetchResults \cup {StaleProducts, TransformAll(<<RawMug>>)}
                             \cup {TransformAll(r) : r \in RawResults}}

\* not a draft, and the inventory of the variants sums to more than zero
Sellable(p) == p.status # Str("draft") /\ inventory(p) > 0

\* the number of tokens of the query that occur in the lower-cased
\* title + product_type + tags of p
Overlap(query, p) ==
    LET keywords == tokenize(query)
        target == buildSearchableString(p)
    IN  Cardinality({i \in 1..Len(keywords) : includes(target, keywords[i])})

\* req.body.query is a non-empty string
ValidQuery(q) == q.k = "string" /\ q.v # <<>>

\* C1: for every query and every catalog, once the matcher has run its result
\* is the product with the greatest keyword overlap among the products that
\* are not drafts and have summed inventory above zero, the earliest in
\* base-then-external order among those of greatest overlap, and null when
\* there is no such product.
MatcherReturnsBestMatch ==
    matchState.pc = "selected" =>
        LET all == matchInput.base \o matchInput.external
            sellable == {i \in 1..Len(all) : Sellable(all[i])}
            score(i) == Overlap(matchInput.query, all[i])
            best == {i \in sellable :
                        \A j \in sellable : score(j) < score(i) \/ (score(j) = score(i) /\ i <= j)}
        IN  IF sellable = {}
            THEN matchState.result = Null
            ELSE \E i \in best :
                    /\ matchState.result.k = "object"
                    /\ matchState.result.id = all[i].id
                    /\ matchState.result.title = all[i].title

\* C2: a product whose variants' inventory sums to zero, or that has no
\* variants array, is never the product an /agent request selects and
\* returns, whatever its status and whatever the query: the selected product
\* is always one of the supplied products, and one with inventory above zero.
SoldOutNeverReturned ==
    \A a \in AgentIds :
        (agent[a].pc \in {"stripe", "done"} /\ agent[a].product # Null) =>
            /\ \E p \in ServerProducts : p.id = agent[a].product.id
            /\ \A p \in ServerProducts : p.id = agent[a].product.id => inventory(p) > 0

\* a request for "Blue" was answered with a product while the Blue Mug
\* without variants and the sold-out Blue Plate were in the cache
SoldOutSkipped ==
    \E a \in AgentIds :
        /\ agent[a].pc = "done"
        /\ agent[a].product # Null
        /\ agent[a].query = Str(<<"B", "l", "u", "e">>)
        /\ {BlueMug, BluePlate} \subseteq Range(baseProductsCache)

\* C3: the answer to an /agent request is 400 exactly when the query is
\* missing, empty or not a string; 404 only when no product is in stock; 200
\* with the selected product and a client secret; or the generic 500 without
\* detail, which is sent only when the payment provider is called or the
\* selection throws, and always when the selection throws.
AgentOutcomes ==
    \A a \in AgentIds :
        agent[a].pc = "done" =>
            LET q == agent[a].query
                products == FilterProducts(baseProductsCache, externalProductsCache)
            IN  /\ response # Null
                /\ response.route = "/agent"
                /\ response.status \in {200, 400, 404, 500}
                /\ response.status = 400 <=> ~ValidQuery(q)
                /\ response.status = 400 => response = MissingQuery
                /\ response.status = 404 => response = NoProduct /\ products = <<>>
                /\ response.status = 200 =>
                       /\ agent[a].product # Null
                       /\ response.body.product.title = agent[a].product.title
                       /\ response.body.product.description = agent[a].product.description
                       /\ response.body.payment_intent_client_secret
                              \in {"pi_mock_client_secret", "pi_live_secret"}
                /\ response.status = 500 =>
                       /\ response = AgentFailed
                       /\ stripeConfigured \/ selectProduct(products, q.v) = Throw
                /\ (ValidQuery(q) /\ ~stripeConfigured) =>
                       /\ response.status = 500 <=> selectProduct(products, q.v) = Throw
                       /\ response.status = 404 <=> products = <<>>

\* the payment provider was called, failed, and the request was answered 500
ProviderFailureAnswered ==
    \E a \in AgentIds :
        /\ agent[a].pc = "done"
        /\ stripeConfigured
        /\ response = AgentFailed
        /\ FilterProducts(baseProductsCache, externalProductsCache) # <<>>

WebhookOutcome ==
    \A w \in HookIds :
        hook[w].pc = "done" =>
            IF shopifyWebhookSecret = <<>>
            THEN response = SecretMissing /\ response.status = 500 /\ baseRefresh[w] = Idle
            ELSE IF hook[w].header # Hmac(shopifyWebhookSecret, hook[w].body)
            THEN response = InvalidHmac /\ baseRefresh[w] = Idle
            ELSE IF baseRefresh[w].pc = "done"
            THEN /\ response.status = 200
                 /\ response.body = [text |-> "ok"]
                 /\ baseRefresh[w].data \in FetchResults
                 /\ baseFile = Arr(baseRefresh[w].data)
            ELSE /\ baseRefresh[w].pc = "failed"
                 /\ baseRefresh[w].step \in {"credentials", "fetch", "write"}
                 /\ response.status = 500
                 /\ response.body = [text |-> "refresh failed"]

\* a correctly signed delivery was answered 200 after its write completed
WebhookAnsweredOk ==
    \E w \in HookIds :
        /\ hook[w].pc = "done"
        /\ baseRefresh[w].pc = "done"
        /\ response.status = 200
        /\ baseFile = Arr(baseRefresh[w].data)

\* C6: a refresh that fails at the credentials check or at the fetch, for
\* whichever caller and in whichever interleaving, leaves the in-memory base
\* cache holding the list it held.
FetchFailureKeepsCache ==
    [][\A o \in RefreshCallers :
          (baseRefresh'[o] # baseRefresh[o] /\ baseRefresh'[o].pc = "failed"
             /\ baseRefresh'[o].step \in {"credentials", "fetch"}) =>
                 baseProductsCache' = baseProductsCache]_vars

\* C7: without a payment secret, /config reports stripeConfigured false, no
\* request ever waits for the payment provider, a 200 answer carries the mock
\* client secret, and createPaymentIntent returns for every product id the
\* mock intent pi_mock_<productId>, a function of the id alone.
MockCheckoutWithoutKey ==
    ~stripeConfigured =>
        /\ (response # Null /\ response.route = "/config") =>
               response.body.stripeConfigured = FALSE
        /\ \A a \in AgentIds : agent[a].pc # "stripe"
        /\ \A a \in AgentIds :
               (agent[a].pc = "done" /\ response # Null /\ response.status = 200) =>
                   response.body.payment_intent_client_secret = "pi_mock_client_secret"
        /\ \A p \in ServerProducts :
               createPaymentIntent(stripeConfigured, 100, p.id)
                   = [k |-> "resolved",
                      id |-> <<"pi_mock_", p.id.v>>,
                      client_secret |-> "pi_mock_client_secret"]

\* a request was answered 200 by a server without a payment secret
MockIntentReturned ==
    \E a \in AgentIds :
        /\ ~stripeConfigured
        /\ agent[a].pc = "done"
        /\ response # Null
        /\ response.status = 200
        /\ response.body.payment_intent_client_secret = "pi_mock_client_secret"

\* the queries that consist of whitespace and commas only
BlankQueries == {q \in MatchQueries : \A i \in 1..Len(q) : IsSeparator(q[i])}

\* C8: for the empty query and for a query of whitespace and commas only,
\* the token list is empty, every product scores 0, and the matcher returns
\* the first in-stock product (null when there is none).
BlankQueryReturnsFirst ==
    (matchState.pc = "selected" /\ matchInput.query \in BlankQueries) =>
        LET products == matchState.products
        IN  /\ tokenize(matchInput.query) = <<>>
            /\ \A i \in 1..Len(products) :
                   scoreProduct(tokenize(matchInput.query),
                                buildSearchableString(products[i])) = 0
            /\ IF products = <<>>
               THEN matchState.result = Null
               ELSE /\ matchState.result.k = "object"
                    /\ matchState.result.id = products[1].id

\* C9: selectProduct returns null if and only if the list it is given is
\* empty, and returns a product for every non-empty list, whether or not a
\* token of the query matches.
NullOnlyForEmptyList ==
    matchState.pc = "selected" =>
        /\ matchState.result = Null <=> matchState.products = <<>>
        /\ matchState.products # <<>> => matchState.result.k = "object"

\* what a piece of a description stands for once tags are replaced and
\* entities decoded
Meaning(piece) ==
    CASE piece \in TagPieces -> <<" ">>
      [] piece = Amp -> <<"&">>
      [] piece = Lt -> <<"<">>
      [] piece = Gt -> <<">">>
      [] piece = Quot -> <<"\"">>
      [] piece = Apos -> <<"'">>
      [] piece = Nbsp -> <<" ">>
      [] OTHER -> piece

\* the words of a description: the maximal runs of pieces that do not stand
\* for whitespace
RECURSIVE WordsOf(_, _, _)
WordsOf(pieces, word, words) ==
    IF pieces = <<>>
    THEN IF word = <<>> THEN words ELSE Append(words, word)
    ELSE IF Meaning(pieces[1]) \in SpacePieces
    THEN WordsOf(Tail(pieces), <<>>, IF word = <<>> THEN words ELSE Append(words, word))
    ELSE WordsOf(Tail(pieces), word \o Meaning(pieces[1]), words)

\* C10: normalizeDescription of a description is its words joined by single
\* spaces, where every tag counts as a space, each of &amp; &lt; &gt; &quot;
\* &#39; &nbsp; is decoded once and not decoded again, and every other entity
\* is left as written; "<p>A &amp; B</p>" gives "A & B".
NormalizeGivesWords ==
    normState.pc = "done" =>
        /\ normState.result = Str(join(WordsOf(normInput, <<>>, <<>>)))
        /\ normInput = ExamplePieces =>
               normState.result = Str(<<"A", " ", "&", " ", "B">>)

\* the documented example has been normalized to "A & B"
ExampleNormalized ==
    /\ normState.pc = "done"
    /\ normInput = ExamplePieces
    /\ normState.result = Str(<<"A", " ", "&", " ", "B">>)

\* the callers whose base refresh, or external refresh, is in flight
BaseRefreshesInFlight == {o \in RefreshCallers : Running(baseRefresh[o].pc)}
ExternalRefreshesInFlight == {o \in RefreshCallers : Running(externalRefresh[o].pc)}

\* C11: at any time at most one refresh of the base catalog and at most one
\* refresh of the external catalog is in flight, whichever of startup, timer,
\* webhook and lazy-load started them.
OneRefreshPerSource ==
    /\ Cardinality(BaseRefreshesInFlight) <= 1
    /\ Cardinality(ExternalRefreshesInFlight) <= 1

\* C12: when a base refresh completes successfully and leaves no base
\* refresh in flight, products.json holds the list that is in the base cache
\* (which is one of the fetched lists, whole), also when overlapping
\* refreshes have completed one after another.
FileEqualsCacheAfterRefresh ==
    [][\A o \in RefreshCallers :
          (baseRefresh[o].pc = "write" /\ baseRefresh'[o].pc = "done"
             /\ \A other \in RefreshCallers : ~Running(baseRefresh'[other].pc)) =>
                 /\ baseProductsCache' \in FetchResults
                 /\ baseFile' = Arr(baseProductsCache')]_vars

\* C15: once the base cache holds a list, a request that had found the cache
\* empty and is waiting for its file read or for its lazy-load refresh does
\* not replace that list, neither by the contents of products.json nor by
\* the empty list, when its wait ends.
WaitingRequestKeepsCache ==
    [][\A a \in AgentIds :
          (agent[a].pc \in {"readBase", "refreshBase"} /\ agent'[a].pc # agent[a].pc
             /\ baseProductsCache # <<>>) =>
                 baseProductsCache' = baseProductsCache]_vars

\* the handler of request a runs from the arrival of a valid query to its
\* first await or its response
HandlerStarts(a) ==
    /\ agent[a].pc = "received"
    /\ agent'[a].pc # "received"
    /\ ValidQuery(agent[a].query)

\* the request reads no file, starts no refresh, and leaves the caches, the
\* files and the cached records as they are
ReadsNothing(a) ==
    /\ agent'[a].pc \in {"done", "stripe"}
    /\ UNCHANGED <<baseProductsCache, externalProductsCache, baseFile, externalFile,
                   externalRawFile, baseRefresh, externalRefresh>>

\* C13 as stated: a request that finds the base cache non-empty changes
\* neither cache, reads no file and starts no fetch.
NonEmptyCacheRequestReadsNothing ==
    [][\A a \in AgentIds :
          (HandlerStarts(a) /\ baseProductsCache # <<>>) => ReadsNothing(a)]_vars

\* C13: a request that finds the base cache non-empty and, when the scraper
\* is in use, the external cache non-empty as well, changes neither cache,
\* reads no file, starts no fetch and no scraper, and is answered or calls
\* the payment provider in the same turn.
WarmCacheRequestReadsNothing ==
    [][\A a \in AgentIds :
          (HandlerStarts(a) /\ baseProductsCache # <<>>
             /\ (useMcpScraper => externalProductsCache # <<>>)) => ReadsNothing(a)]_vars

\* with the scraper in use, both caches filled and both files unreadable, a
\* request was answered 200 in the turn its handler started: no key so no
\* provider call, no file it could have read, no refresh of its own settled
WarmCacheRequestAnswered ==
    \E a \in AgentIds :
        /\ useMcpScraper /\ ~stripeConfigured
        /\ baseProductsCache # <<>> /\ externalProductsCache # <<>>
        /\ baseFile = Unreadable /\ externalFile = Unreadable
        /\ baseRefresh[a] = Idle /\ externalRefresh[a] = Idle
        /\ agent[a].pc = "done"
        /\ response # Null /\ response.status = 200

\* the step is one of request a, which leaves the position pc
Leaves(a, pc) == agent[a].pc = pc /\ agent'[a].pc # pc

\* request a goes on past loadProducts with nothing in stock: it is answered
\* 404, never 500
AnsweredNotFound(a, base, external) ==
    FilterProducts(base, external) = <<>> =>
        agent'[a].pc = "done" /\ response' = NoProduct

\* C14: a request starts a refresh of the base catalog exactly when it found
\* baseProductsCache empty and its read of products.json fails, and a run of
\* the scraper exactly when it found externalProductsCache empty and its read
\* of external_products.json fails; when the file is read the request starts
\* no refresh and the cache becomes the file's contents; when the request's
\* own refresh fails the cache of that source becomes the empty list and the
\* request goes on, answered 404 when nothing else is in stock.
LazyRefreshOnlyOnUnreadableFile ==
    [][\A a \in AgentIds :
          /\ (agent[a].pc = "received" /\ agent'[a].pc = "readBase") =>
                 baseProductsCache = <<>>
          /\ (agent'[a].pc = "readExternal" /\ agent[a].pc # "readExternal") =>
                 externalProductsCache' = <<>>
          /\ (baseRefresh[a] = Idle /\ baseRefresh'[a] # Idle) =>
                 agent[a].pc = "readBase" /\ baseFile = Unreadable
          /\ (externalRefresh[a] = Idle /\ externalRefresh'[a] # Idle) =>
                 agent[a].pc = "readExternal" /\ externalFile = Unreadable
          /\ (Leaves(a, "readBase") /\ baseFile = Unreadable) =>
                 baseRefresh'[a] = StartBaseRefresh
          /\ (Leaves(a, "readExternal") /\ externalFile = Unreadable) =>
                 externalRefresh'[a] = StartExternalRefresh
          /\ (Leaves(a, "readBase") /\ baseFile # Unreadable) =>
                 /\ UNCHANGED <<baseRefresh, externalRefresh>>
                 /\ baseProductsCache' = baseFile.v
          /\ (Leaves(a, "readExternal") /\ externalFile # Unreadable) =>
                 /\ UNCHANGED <<baseRefresh, externalRefresh>>
                 /\ externalProductsCache' = externalFile.v
          /\ (baseRefresh[a].pc # "failed" /\ baseRefresh'[a].pc = "failed") =>
                 /\ baseProductsCache' = <<>>
                 /\ agent'[a].pc \in {"readExternal", "done", "stripe"}
                 /\ agent'[a].pc # "readExternal" =>
                        AnsweredNotFound(a, <<>>, externalProductsCache')
          /\ (externalRefresh[a].pc # "failed" /\ externalRefresh'[a].pc = "failed") =>
                 /\ externalProductsCache' = <<>>
                 /\ agent'[a].pc \in {"done", "stripe"}
                 /\ AnsweredNotFound(a, baseProductsCache', <<>>)]_vars

\* the fetch of a request's lazy-load refresh failed and the request was
\* answered 404
LazyRefreshFailedRequestAnswered ==
    \E a \in AgentIds :
        /\ baseRefresh[a].pc = "failed"
        /\ baseRefresh[a].step = "fetch"
        /\ agent[a].pc = "done"
        /\ baseProductsCache = <<>>
        /\ response = NoProduct

\* the products of the stores that succeeded, in the order of the outcomes
RECURSIVE ProductsOfSucceeded(_)
ProductsOfSucceeded(results) ==
    IF results = <<>> THEN <<>>
    ELSE (IF results[1] = StoreFailure THEN <<>> ELSE results[1].v)
         \o ProductsOfSucceeded(Tail(results))

\* the scraper of a store is running or its output is being read
InLoop(pc) == pc \in {"spawn", "readRaw"}

\* C16: in a multi-store refresh the store being scraped is the one after
\* the stores already done with, in the order of mcpStores, one at a time;
\* when the loop is over with every store failed the refresh fails and
\* externalProductsCache and external_products.json are as they were; when
\* at least one store succeeded externalProductsCache becomes the products of
\* the stores that succeeded in this cycle, in store order and nothing else,
\* and the write that follows puts the same list in external_products.json;
\* nothing else changes the cache or the file.
StoresCycleAggregates ==
    [][/\ \A o \in StoreCallers :
             LET cycle == storesRefresh[o]
                 after == storesRefresh'[o]
             IN  /\ InLoop(after.pc) =>
                        /\ after.index = Len(after.results) + 1
                        /\ after.index <= Len(mcpStores)
                        /\ InLoop(cycle.pc) => after.index \in {cycle.index, cycle.index + 1}
                        /\ ~InLoop(cycle.pc) => after.index = 1
                 /\ (InLoop(cycle.pc) /\ after.pc \notin {"spawn", "readRaw", "crashed"}) =>
                        /\ Len(after.results) = Len(mcpStores)
                        /\ IF \A i \in 1..Len(after.results) : after.results[i] = StoreFailure
                           THEN /\ after.pc = "failed"
                                /\ UNCHANGED <<externalProductsCache, externalFile>>
                           ELSE /\ after.pc = "write"
                                /\ externalProductsCache' = ProductsOfSucceeded(after.results)
                                /\ UNCHANGED externalFile
                 /\ (cycle.pc = "write" /\ after.pc = "done") =>
                        /\ externalFile' = Arr(ProductsOfSucceeded(cycle.results))
                        /\ UNCHANGED externalProductsCache
       /\ externalProductsCache' # externalProductsCache =>
              \E o \in StoreCallers : InLoop(storesRefresh[o].pc) /\ storesRefresh'[o].pc = "write"
       /\ externalFile' # externalFile =>
              \E o \in StoreCallers :
                  storesRefresh[o].pc = "write" /\ Settled(storesRefresh'[o].pc)]_vars

\* the timer's cycle over two different stores is done: the first store
\* failed, the second succeeded, and the cache and the file hold the second
\* store's products only
FailedStoreDropped ==
    \E o \in CronIds :
        /\ storesRefresh[o].pc = "done"
        /\ Len(mcpStores) = 2 /\ mcpStores[1] # mcpStores[2]
        /\ storesRefresh[o].results[1] = StoreFailure
        /\ storesRefresh[o].results[2] # StoreFailure
        /\ externalProductsCache = storesRefresh[o].results[2].v
        /\ externalFile = Arr(externalProductsCache)

\* C17: every /agent request and every webhook delivery that has arrived is
\* answered, whatever the file operations, the upstream calls and the scraper
\* do, the scraper failing to start included; stated on finite runs: as long
\* as a request or a delivery waits for its answer the process is running,
\* so that the step that answers it can still be taken.
NoRequestAbandoned ==
    ProcessExited =>
        /\ \A a \in AgentIds : ~Running(agent[a].pc)
        /\ \A w \in HookIds : ~Running(hook[w].pc)

====
